---- MODULE Spec2Model ----
(***************************************************************************)
(* A model of the personal_site blog.                                      *)
(*                                                                         *)
(*   src/app.py     the sqlite revision: session admin flag, posts table   *)
(*                  with a JSON list of image paths, uploads written under *)
(*                  static/uploads/<post_id>/.                             *)
(*   src/models.py  the ORM revision's schema: Post (unique slug) and      *)
(*                  Media (owned by a post, cascade "all, delete-orphan"). *)
(*                                                                         *)
(* Strings the code inspects character by character (file names, paths,    *)
(* titles, slugs) are sequences of one-character strings.                  *)
(***************************************************************************)
EXTENDS Integers, Sequences, FiniteSets, TLC

VARIABLES
    is_admin,     \* session["is_admin"], per browser session
    posts,        \* table posts of site.db: id -> row
    next_id,      \* the AUTOINCREMENT counter of posts (ids are never reused)
    disk,         \* UPLOAD_FOLDER: post id -> (file name -> file content)
    response,     \* the answer to the latest request: endpoint, status, flashes
    edits,        \* number of POST /admin/edit requests served (bounds the run)
    inflight,     \* admin_edit requests that have read their row, not yet written
    authlog,      \* the /login and /logout requests made so far, oldest first
    orm_posts,    \* table post of the ORM revision: id -> row
    media,        \* table media of the ORM revision: set of rows
    orm_next,     \* id generators of the ORM revision: [post, media]
    orm_pending   \* creates of the ORM revision that probed a slug, not yet inserted

vars == <<is_admin, posts, next_id, disk, response, edits, inflight, authlog,
          orm_posts, media, orm_next, orm_pending>>

appVars == <<is_admin, posts, next_id, disk, response, edits, inflight, authlog>>
ormVars == <<orm_posts, media, orm_next, orm_pending>>

-----------------------------------------------------------------------------
(* Bounds of the model *)

NumSessions == 2
MaxPosts == 1
MaxEdits == 2
MaxAuthLog == 3
NumWorkers == 2

Sessions == 1..NumSessions
Workers == 1..NumWorkers

-----------------------------------------------------------------------------
(* Program constants *)

MAX_IMAGES_PER_POST == 15

ADMIN_PASSWORD == "change_me"

ALLOWED_EXTENSIONS ==
    { <<"p","n","g">>, <<"j","p","g">>, <<"j","p","e","g">>,
      <<"g","i","f">>, <<"w","e","b","p">> }

\* The ids of the rows init_db seeds into sections, as a form submits them.
SectionIds == {"1", "2", "3", "4", "5"}

\* Python's None / SQL NULL in a column that otherwise holds a path.
None == <<>>

-----------------------------------------------------------------------------
(* String helpers *)

RangeOf(s) == { s[i] : i \in 1..Len(s) }

IsSpace(c) == c \in {" "}

RECURSIVE LStrip(_)
LStrip(s) == IF s # <<>> /\ IsSpace(Head(s)) THEN LStrip(Tail(s)) ELSE s

RECURSIVE RStrip(_)
RStrip(s) ==
    IF s # <<>> /\ IsSpace(s[Len(s)]) THEN RStrip(SubSeq(s, 1, Len(s) - 1)) ELSE s

\* str.strip()
Strip(s) == RStrip(LStrip(s))

\* str.lower() on one character
LowerChar(c) ==
    CASE c = "P" -> "p"
      [] c = "N" -> "n"
      [] c = "G" -> "g"
      [] c = "E" -> "e"
      [] c = "X" -> "x"
      [] c = "A" -> "a"
      [] c = "M" -> "m"
      [] c = "Y" -> "y"
      [] c = "O" -> "o"
      [] c = "S" -> "s"
      [] c = "T" -> "t"
      [] OTHER -> c

Lower(s) == [i \in 1..Len(s) |-> LowerChar(s[i])]

\* index of the last "." of s, 0 when there is none
LastDot(s) ==
    LET dots == { i \in 1..Len(s) : s[i] = "." }
    IN  IF dots = {} THEN 0 ELSE CHOOSE i \in dots : \A j \in dots : j <= i

Digit(d) ==
    CASE d = 0 -> "0" [] d = 1 -> "1" [] d = 2 -> "2" [] d = 3 -> "3"
      [] d = 4 -> "4" [] d = 5 -> "5" [] d = 6 -> "6" [] d = 7 -> "7"
      [] d = 8 -> "8" [] d = 9 -> "9"

\* str(n) for n >= 0
RECURSIVE ToStr(_)
ToStr(n) == IF n < 10 THEN <<Digit(n)>> ELSE ToStr(n \div 10) \o <<Digit(n % 10)>>

StartsWith(s, prefix) ==
    Len(s) >= Len(prefix) /\ SubSeq(s, 1, Len(prefix)) = prefix

-----------------------------------------------------------------------------
(* File names and paths *)

\* a slip: the extension compared without lower()
allowed_file_case_sensitive(filename) ==
    /\ LastDot(filename) > 0
    /\ SubSeq(filename, LastDot(filename) + 1, Len(filename)) \in ALLOWED_EXTENSIONS

allowed_file(filename) ==
    /\ LastDot(filename) > 0
    /\ Lower(SubSeq(filename, LastDot(filename) + 1, Len(filename)))
           \in ALLOWED_EXTENSIONS

SafeChars ==
    { "a", "b", "e", "g", "n", "p", "x", "A", "E", "G", "N", "P", "X",
      "0", "1", "2", "3", "4", "5", "6", "7", "8", "9", "_", ".", "-" }

RECURSIVE StripDots(_)
StripDots(s) ==
    IF s # <<>> /\ Head(s) \in {".", "_"} THEN StripDots(Tail(s))
    ELSE IF s # <<>> /\ s[Len(s)] \in {".", "_"}
         THEN StripDots(SubSeq(s, 1, Len(s) - 1))
         ELSE s

\* werkzeug's secure_filename: drop the characters outside [A-Za-z0-9_.-],
\* then strip leading and trailing "." and "_".
secure_filename(filename) ==
    StripDots(SelectSeq(filename, LAMBDA c : c \in SafeChars))

\* os.path.splitext: split at the last dot, unless only dots precede it.
splitext(filename) ==
    LET d == LastDot(filename)
    IN  IF d > 0 /\ \E j \in 1..(d - 1) : filename[j] # "."
        THEN [name |-> SubSeq(filename, 1, d - 1),
              ext  |-> SubSeq(filename, d, Len(filename))]
        ELSE [name |-> filename, ext |-> <<>>]

\* a slip: the name taken without probing the directory
FreeNameNoProbe(dir, name, ext, final, i) == final

\* the while loop of admin_new / admin_edit: the first of
\* final, name-1.ext, name-2.ext, ... that dir does not hold
RECURSIVE FreeName(_, _, _, _, _)
FreeName(dir, name, ext, final, i) ==
    IF final \in DOMAIN dir
    THEN FreeName(dir, name, ext, name \o <<"-">> \o ToStr(i) \o ext, i + 1)
    ELSE final

\* '<post_id>/<final>'
RelPath(post_id, final) == ToStr(post_id) \o <<"/">> \o final

_fix_rel_path(p) ==
    IF p = <<>> THEN p
    ELSE IF StartsWith(p, <<"u","p","l","o","a","d","s","/">>)
         THEN SubSeq(p, 9, Len(p))
         ELSE p

-----------------------------------------------------------------------------
(* Requests *)

Passwords == {ADMIN_PASSWORD, "hunter2", ""}

Methods == {"GET", "POST"}

\* request.form of admin_new / admin_edit
Form(section_id, title, body) ==
    [section_id |-> section_id, title |-> title, body |-> body]

ValidForms == { Form("1", <<"T">>, <<"b">>), Form("2", <<" ","U"," ">>, <<"b">>) }

InvalidForms ==
    { Form("1", <<" ">>, <<"b">>),      \* blank title
      Form("1", <<"T">>, <<>>),         \* no body
      Form("", <<"T">>, <<"b">>),       \* no section
      Form("9", <<"T">>, <<"b">>),      \* a section that does not exist
      Form("9", <<>>, <<"b">>) }        \* no title, and no such section

Forms == ValidForms \cup InvalidForms

Upload(filename, data) == [filename |-> filename, data |-> data]

NoUpload == Upload(<<>>, "")

a_png == <<"a",".","p","n","g">>
a_PNG == <<"a",".","P","N","G">>
a_exe == <<"a",".","e","x","e">>
dot_png == <<".","p","n","g">>
a_1_png == <<"a","-","1",".","p","n","g">>

\* request.files: the multi-file field "images" and the legacy field "image"
Files(images, image) == [images |-> images, image |-> image]

NoFiles == Files(<<>>, NoUpload)

\* an unsupported type, then an upper-case extension, a hidden-file name,
\* and the legacy single file
MixedFiles ==
    Files(<<Upload(a_exe, "d2"), Upload(a_PNG, "d2"), Upload(dot_png, "d2")>>,
          Upload(a_png, "d2"))

\* the same name twice around an empty file field, then the name the
\* first collision was given
SameNameFiles ==
    Files(<<Upload(a_png, "d1"), NoUpload, Upload(a_png, "d2"), Upload(a_1_png, "d1")>>,
          NoUpload)

\* an unsupported type, then one file more than the cap allows
TooManyFiles ==
    Files(<<Upload(a_exe, "d1")>>
              \o [i \in 1..(MAX_IMAGES_PER_POST + 1) |-> Upload(a_png, "d1")],
          NoUpload)

FileSets == {NoFiles, MixedFiles, SameNameFiles, TooManyFiles}

\* files = request.files.getlist("images"), plus the legacy single file
FileList(files) ==
    files.images \o (IF files.image.filename # <<>> THEN <<files.image>> ELSE <<>>)

Flash(msg, arg) == [msg |-> msg, arg |-> arg]

Response(op, status, flashes) == [op |-> op, status |-> status, flashes |-> flashes]

-----------------------------------------------------------------------------
(* Upload handling shared by admin_new and admin_edit *)

\* a slip: > for >=
CapReachedOffByOne(list) == Len(list) > MAX_IMAGES_PER_POST

\* len(image_paths) >= MAX_IMAGES_PER_POST
CapReached(list) == Len(list) >= MAX_IMAGES_PER_POST

\* The for loop over files: skip empty names, stop at the cap, skip
\* unsupported types, save every other file under a free name.
RECURSIVE SaveFiles(_, _, _, _, _)
SaveFiles(files, post_id, list, dir, flashes) ==
    IF files = <<>>
    THEN [list |-> list, dir |-> dir, flashes |-> flashes]
    ELSE LET f == Head(files)
         IN  IF f.filename = <<>>
             THEN SaveFiles(Tail(files), post_id, list, dir, flashes)
             ELSE IF CapReached(list)
             THEN [list |-> list, dir |-> dir,
                   flashes |-> flashes \cup {Flash("Max images per post. Extra files ignored.", <<>>)}]
             ELSE IF ~allowed_file(f.filename)
             THEN SaveFiles(Tail(files), post_id, list, dir,
                            flashes \cup {Flash("Unsupported image type", f.filename)})
             ELSE LET filename == secure_filename(f.filename)
                      parts == splitext(filename)
                      final == FreeName(dir, parts.name, parts.ext, filename, 1)
                  IN  SaveFiles(Tail(files), post_id,
                                Append(list, RelPath(post_id, final)),
                                dir @@ (final :> f.data),
                                flashes)

\* os.makedirs(dest_dir, exist_ok=True)
MakeDir(post_id) == IF post_id \in DOMAIN disk THEN disk[post_id] ELSE <<>>

FirstImage(list) == IF list # <<>> THEN list[1] ELSE None

\* not (section_id and title and body)
MissingField(form) ==
    form.section_id = "" \/ Strip(form.title) = <<>> \/ Strip(form.body) = <<>>

\* FOREIGN KEY (section_id) REFERENCES sections(id), with PRAGMA foreign_keys = ON
SectionExists(section_id) == section_id \in SectionIds

-----------------------------------------------------------------------------
(* Admin gate *)

\* a slip: the gate lets every session through
require_admin_open(s) == TRUE

require_admin(s) == is_admin[s]

LoginStep(s, method, password) ==
    /\ IF method = "POST" /\ password = ADMIN_PASSWORD
       THEN /\ is_admin' = [is_admin EXCEPT ![s] = TRUE]
            /\ response' = Response("login", "redirect_admin",
                                    {Flash("Logged in successfully.", <<>>)})
       ELSE /\ is_admin' = is_admin
            /\ response' = Response("login", "render_login",
                                    IF method = "POST"
                                    THEN {Flash("Invalid password.", <<>>)}
                                    ELSE {})
    /\ UNCHANGED <<posts, next_id, disk, edits, inflight>>

\* a slip: logout answers without clearing the flag
LogoutStepKeepsFlag(s) ==
    /\ is_admin' = is_admin
    /\ response' = Response("logout", "redirect_index", {Flash("Logged out.", <<>>)})
    /\ UNCHANGED <<posts, next_id, disk, edits, inflight>>

LogoutStep(s) ==
    /\ is_admin' = [is_admin EXCEPT ![s] = FALSE]
    /\ response' = Response("logout", "redirect_index", {Flash("Logged out.", <<>>)})
    /\ UNCHANGED <<posts, next_id, disk, edits, inflight>>

LoginRequired(op) ==
    /\ response' = Response(op, "redirect_login", {Flash("Admin login required.", <<>>)})
    /\ UNCHANGED <<is_admin, posts, next_id, disk, edits, inflight>>

-----------------------------------------------------------------------------
(* Post handlers, one request at a time *)

admin_new(s, method, form, files) ==
    IF ~require_admin(s) THEN LoginRequired("admin_new")
    ELSE IF method = "GET" THEN
        /\ response' = Response("admin_new", "render_admin_new", {})
        /\ UNCHANGED <<is_admin, posts, next_id, disk, edits, inflight>>
    ELSE IF MissingField(form) THEN
        /\ response' = Response("admin_new", "render_admin_new",
                                {Flash("Please fill all required fields.", <<>>)})
        /\ UNCHANGED <<is_admin, posts, next_id, disk, edits, inflight>>
    ELSE IF ~SectionExists(form.section_id) THEN
        \* the INSERT raises sqlite3.IntegrityError, nothing is committed
        /\ response' = Response("admin_new", "server_error", {})
        /\ UNCHANGED <<is_admin, posts, next_id, disk, edits, inflight>>
    ELSE
        /\ next_id <= MaxPosts
        /\ LET post_id == next_id
               saved == SaveFiles(FileList(files), post_id, <<>>, MakeDir(post_id), {})
           IN  /\ posts' = posts @@ (post_id :>
                       [section_id  |-> form.section_id,
                        title       |-> Strip(form.title),
                        body        |-> Strip(form.body),
                        image_path  |-> FirstImage(saved.list),
                        image_paths |-> saved.list])
               /\ disk' = [p \in DOMAIN disk \cup {post_id} |->
                              IF p = post_id THEN saved.dir ELSE disk[p]]
               /\ response' = Response("admin_new", "redirect_admin",
                                       saved.flashes \cup {Flash("Post created!", <<>>)})
        /\ next_id' = next_id + 1
        /\ UNCHANGED <<is_admin, edits, inflight>>

\* existing_list of admin_edit, from the row read at the start of the request
ExistingList(post_row) ==
    [i \in 1..Len(post_row.image_paths) |-> _fix_rel_path(post_row.image_paths[i])]

\* The POST branch of admin_edit on the row it read: save the files, then
\* validate, then UPDATE.
EditPost(post_id, post_row, form, files) ==
    LET saved == SaveFiles(FileList(files), post_id, ExistingList(post_row),
                           MakeDir(post_id), {})
    IN  /\ disk' = [p \in DOMAIN disk \cup {post_id} |->
                       IF p = post_id THEN saved.dir ELSE disk[p]]
        /\ IF MissingField(form) THEN
               /\ response' = Response("admin_edit", "render_admin_edit",
                       saved.flashes \cup {Flash("Please fill all required fields.", <<>>)})
               /\ posts' = posts
           ELSE IF ~SectionExists(form.section_id) THEN
               \* the UPDATE raises sqlite3.IntegrityError
               /\ response' = Response("admin_edit", "server_error", saved.flashes)
               /\ posts' = posts
           ELSE
               /\ response' = Response("admin_edit", "redirect_admin",
                       saved.flashes \cup {Flash("Post updated!", <<>>)})
               /\ posts' = [p \in DOMAIN posts |->
                       IF p = post_id
                       THEN [section_id  |-> form.section_id,
                             title       |-> Strip(form.title),
                             body        |-> Strip(form.body),
                             image_path  |-> FirstImage(saved.list),
                             image_paths |-> saved.list]
                       ELSE posts[p]]

admin_edit(s, method, post_id, form, files) ==
    IF ~require_admin(s) THEN LoginRequired("admin_edit")
    ELSE IF post_id \notin DOMAIN posts THEN
        /\ response' = Response("admin_edit", "not_found", {})
        /\ UNCHANGED <<is_admin, posts, next_id, disk, edits, inflight>>
    ELSE IF method = "GET" THEN
        /\ response' = Response("admin_edit", "render_admin_edit", {})
        /\ UNCHANGED <<is_admin, posts, next_id, disk, edits, inflight>>
    ELSE
        /\ edits < MaxEdits
        /\ EditPost(post_id, posts[post_id], form, files)
        /\ edits' = edits + 1
        /\ UNCHANGED <<is_admin, next_id, inflight>>

admin_delete(s, post_id) ==
    IF ~require_admin(s) THEN LoginRequired("admin_delete")
    ELSE
        /\ posts' = [p \in DOMAIN posts \ {post_id} |-> posts[p]]
        /\ response' = Response("admin_delete", "redirect_admin",
                                {Flash("Post deleted.", <<>>)})
        /\ UNCHANGED <<is_admin, next_id, disk, edits, inflight>>

PostIds == 1..(MaxPosts + 1)

-----------------------------------------------------------------------------
(* The sqlite revision, requests served one at a time *)

Init ==
    /\ is_admin = [s \in Sessions |-> FALSE]
    /\ posts = <<>>
    /\ next_id = 1
    /\ disk = <<>>
    /\ response = Response("start", "none", {})
    /\ edits = 0
    /\ inflight = [w \in Workers |-> <<>>]
    /\ authlog = <<>>
    /\ orm_posts = <<>>
    /\ media = {}
    /\ orm_next = [post |-> 1, media |-> 1]
    /\ orm_pending = [w \in Workers |-> <<>>]

Login(sessions, methods, passwords) ==
    \E s \in sessions, method \in methods, password \in passwords :
        LoginStep(s, method, password) /\ UNCHANGED authlog /\ UNCHANGED ormVars

Logout(sessions) ==
    \E s \in sessions : LogoutStep(s) /\ UNCHANGED authlog /\ UNCHANGED ormVars

AdminNew(sessions, methods, forms, filesets) ==
    \E s \in sessions, method \in methods, form \in forms, files \in filesets :
        admin_new(s, method, form, files) /\ UNCHANGED authlog /\ UNCHANGED ormVars

AdminEdit(sessions, methods, forms, filesets) ==
    \E s \in sessions, method \in methods, post_id \in PostIds,
       form \in forms, files \in filesets :
        admin_edit(s, method, post_id, form, files)
            /\ UNCHANGED authlog /\ UNCHANGED ormVars

AdminDelete(sessions) ==
    \E s \in sessions, post_id \in PostIds :
        admin_delete(s, post_id) /\ UNCHANGED authlog /\ UNCHANGED ormVars

\* Every route, from every session.
GateForms == ValidForms \cup { Form("1", <<" ">>, <<"b">>) }

Next ==
    \/ Login(Sessions, Methods, Passwords)
    \/ Logout(Sessions)
    \/ AdminNew(Sessions, Methods, GateForms, {MixedFiles})
    \/ AdminEdit(Sessions, Methods, GateForms, {MixedFiles})
    \/ AdminDelete(Sessions)

Spec == Init /\ [][Next]_vars

-----------------------------------------------------------------------------
(* Login and logout, with the requests made so far on record *)

AuthRequest(s, route, method, password) ==
    [sess |-> s, route |-> route, method |-> method, password |-> password]

LoginLogged ==
    \E s \in Sessions, method \in Methods, password \in Passwords :
        /\ Len(authlog) < MaxAuthLog
        /\ LoginStep(s, method, password)
        /\ authlog' = Append(authlog, AuthRequest(s, "login", method, password))
        /\ UNCHANGED ormVars

LogoutLogged ==
    \E s \in Sessions :
        /\ Len(authlog) < MaxAuthLog
        /\ LogoutStep(s)
        /\ authlog' = Append(authlog, AuthRequest(s, "logout", "GET", ""))
        /\ UNCHANGED ormVars

NextAuth == LoginLogged \/ LogoutLogged \/ AdminDelete(Sessions)

SpecAuth == Init /\ [][NextAuth]_vars

-----------------------------------------------------------------------------
(* One administrator submitting every kind of form *)

NextForms ==
    \/ Login({1}, {"POST"}, {ADMIN_PASSWORD})
    \/ AdminNew({1}, Methods, Forms, {NoFiles, MixedFiles})
    \/ AdminEdit({1}, Methods, Forms, {NoFiles, MixedFiles})

SpecForms == Init /\ [][NextForms]_vars

-----------------------------------------------------------------------------
(* One administrator creating and editing posts, with every kind of upload *)

UploadForms == { Form("1", <<"T">>, <<"b">>), Form("1", <<" ">>, <<"b">>) }

NextUpload ==
    \/ Login({1}, {"POST"}, {ADMIN_PASSWORD})
    \/ AdminNew({1}, {"POST"}, UploadForms, FileSets)
    \/ AdminEdit({1}, {"POST"}, UploadForms, FileSets)

SpecUpload == Init /\ [][NextUpload]_vars

-----------------------------------------------------------------------------
(* admin_edit requests of several workers, interleaved: each reads its row
   when it starts, and saves its files and writes the row back later *)

OneFile == Files(<<Upload(a_png, "d1")>>, NoUpload)

ConcForms == { Form("1", <<"T">>, <<"b">>) }
ConcFiles == {OneFile, MixedFiles}

\* admin_edit up to the SELECT of the post row
EditRead ==
    \E w \in Workers, s \in {1}, post_id \in PostIds,
       form \in ConcForms, files \in ConcFiles :
        /\ inflight[w] = <<>>
        /\ IF ~require_admin(s) THEN LoginRequired("admin_edit")
           ELSE IF post_id \notin DOMAIN posts THEN
               /\ response' = Response("admin_edit", "not_found", {})
               /\ UNCHANGED <<is_admin, posts, next_id, disk, edits, inflight>>
           ELSE
               /\ edits < MaxEdits
               /\ inflight' = [inflight EXCEPT ![w] =
                      <<[post_id |-> post_id, post_row |-> posts[post_id],
                         form |-> form, files |-> files]>>]
               /\ edits' = edits + 1
               /\ UNCHANGED <<is_admin, posts, next_id, disk, response>>
        /\ UNCHANGED authlog /\ UNCHANGED ormVars

\* the rest of admin_edit, on the row read earlier
EditWrite ==
    \E w \in Workers :
        /\ inflight[w] # <<>>
        /\ LET r == inflight[w][1]
           IN  EditPost(r.post_id, r.post_row, r.form, r.files)
        /\ inflight' = [inflight EXCEPT ![w] = <<>>]
        /\ UNCHANGED <<is_admin, next_id, edits>>
        /\ UNCHANGED authlog /\ UNCHANGED ormVars

NextConc ==
    \/ Login({1}, {"POST"}, {ADMIN_PASSWORD})
    \/ AdminNew({1}, {"POST"}, ConcForms, ConcFiles)
    \/ EditRead
    \/ EditWrite
    \/ AdminDelete({1})

SpecConc == Init /\ [][NextConc]_vars

-----------------------------------------------------------------------------
(* The ORM revision: the schema of models.py and config.py, with the post
   service of the specification (create, edit, delete) running on it *)

MaxOrmPosts == 2
MaxMedia == 2

TOPICS == {"basketball", "music", "japanese-studies", "finance", "general-learning"}

ALLOWED_IMAGE_EXTENSIONS ==
    { <<"p","n","g">>, <<"j","p","g">>, <<"j","p","e","g">>,
      <<"g","i","f">>, <<"w","e","b","p">> }

ALLOWED_VIDEO_EXTENSIONS ==
    { <<"m","p","4">>, <<"w","e","b","m">>, <<"o","g","g">>,
      <<"m","o","v">>, <<"m","4","v">> }

\* a slip: the slug column declared without unique=True
SlugAccepted_NotUnique(slug, rows) == TRUE

\* Post.slug: unique=True. The store accepts a slug for a row only when no
\* row of `rows` holds it.
SlugAccepted(slug, rows) == \A p \in DOMAIN rows : rows[p].slug # slug

\* a slip: the relationship declared without a delete cascade
MediaAfterDelete_NoCascade(rows, post_id) == rows

\* Post.media: cascade="all, delete-orphan". Deleting a post deletes the
\* media rows it owns.
MediaAfterDelete(rows, post_id) == { m \in rows : m.post_id # post_id }

\* Media.post_id: ForeignKey("post.id"), nullable=False
MediaRow(id, post_id, url, kind) ==
    [id |-> id, post_id |-> post_id, url |-> url, kind |-> kind]

\* the upload handler's classification by extension, case-insensitive
Extension(filename) ==
    IF LastDot(filename) > 0
    THEN Lower(SubSeq(filename, LastDot(filename) + 1, Len(filename)))
    ELSE <<>>

Kind(filename) ==
    IF Extension(filename) \in ALLOWED_IMAGE_EXTENSIONS THEN "image"
    ELSE IF Extension(filename) \in ALLOWED_VIDEO_EXTENSIONS THEN "video"
    ELSE "unsupported"

SlugChars ==
    { "a", "b", "e", "g", "m", "n", "o", "p", "s", "t", "x", "y",
      "A", "E", "G", "M", "N", "O", "P", "S", "T", "X", "Y",
      "0", "1", "2", "3", "4", "5", "6", "7", "8", "9", " ", "-" }

\* runs of spaces and hyphens become one hyphen
RECURSIVE Collapse(_)
Collapse(s) ==
    IF s = <<>> THEN <<>>
    ELSE IF Head(s) \in {" ", "-"}
         THEN IF Len(s) > 1 /\ s[2] \in {" ", "-"}
              THEN Collapse(Tail(s))
              ELSE <<"-">> \o Collapse(Tail(s))
         ELSE <<Head(s)>> \o Collapse(Tail(s))

\* the candidate slug of a title; empty when the title leaves nothing
Slugify(title) ==
    Collapse(Lower(Strip(SelectSeq(title, LAMBDA c : c \in SlugChars))))

\* the random tokens that stand in for an empty slug
Tokens == { <<"x","1">>, <<"x","2">> }

\* probe the store: base, base-2, base-3, ... until no row holds it
RECURSIVE FreeSlug(_, _, _)
FreeSlug(base, taken, n) ==
    LET candidate == IF n = 1 THEN base ELSE base \o <<"-">> \o ToStr(n)
    IN  IF candidate \in taken THEN FreeSlug(base, taken, n + 1) ELSE candidate

SlugsOf(rows) == { rows[p].slug : p \in DOMAIN rows }

My_Post == <<"M","y"," ","P","o","s","t">>
my__post == <<" ","m","y"," ","-"," ","p","o","s","t","!">>

no_letters == <<"!","!">>
blank_title == <<" ">>

OrmTitles == { My_Post, my__post, no_letters, blank_title }

photo_PNG == <<"p",".","P","N","G">>
photo_EXE == <<"p",".","E","X","E">>
clip_mp4 == <<"m",".","m","p","4">>

OrmUploads == { <<>>, <<photo_EXE, photo_PNG>>, <<clip_mp4>> }

\* the media rows of the accepted files of a request, ids from `first` on;
\* a file of an unsupported type is skipped, and so is any file once the
\* store holds MaxMedia rows
RECURSIVE NewMedia(_, _, _)
NewMedia(uploads, post_id, first) ==
    IF uploads = <<>> \/ first > MaxMedia THEN {}
    ELSE IF Kind(Head(uploads)) = "unsupported"
         THEN NewMedia(Tail(uploads), post_id, first)
         ELSE {MediaRow(first, post_id, Head(uploads), Kind(Head(uploads)))}
                  \cup NewMedia(Tail(uploads), post_id, first + 1)

\* the candidate slugs of a title: its slug, or any random token when the
\* title leaves none
BaseSlugs(title) == IF Slugify(title) = <<>> THEN Tokens ELSE {Slugify(title)}

\* create, first half: validate, derive the slug and probe the store for a
\* free one
OrmCreateProbe(workers, titles, topics) ==
    \E w \in workers, title \in titles, topic \in topics :
        /\ orm_pending[w] = <<>>
        /\ Strip(title) # <<>>
        /\ topic \in TOPICS
        /\ \E base \in BaseSlugs(title) :
              orm_pending' = [orm_pending EXCEPT ![w] =
                  <<[topic |-> topic,
                     slug |-> FreeSlug(base, SlugsOf(orm_posts), 1)]>>]
        /\ UNCHANGED <<orm_posts, media, orm_next>>
        /\ UNCHANGED appVars

\* create, second half: insert the post row, then the media rows of the
\* request's files; the store refuses the post when its slug is taken, and
\* nothing is persisted
OrmCreateInsert(workers, uploadsets) ==
    \E w \in workers, uploads \in uploadsets :
        /\ orm_pending[w] # <<>>
        /\ LET r == orm_pending[w][1]
               id == orm_next.post
               rows == NewMedia(uploads, id, orm_next.media)
           IN  IF SlugAccepted(r.slug, orm_posts)
               THEN /\ id <= MaxOrmPosts
                    /\ orm_posts' = orm_posts @@ (id :> [slug |-> r.slug, topic |-> r.topic])
                    /\ media' = media \cup rows
                    /\ orm_next' = [post |-> id + 1,
                                    media |-> orm_next.media + Cardinality(rows)]
               ELSE UNCHANGED <<orm_posts, media, orm_next>>
        /\ orm_pending' = [orm_pending EXCEPT ![w] = <<>>]
        /\ UNCHANGED appVars

\* edit: the slug is recomputed from the new title only on request, probing
\* the rows other than the post's own; media named for deletion are deleted
\* when the post owns them; new files are appended
OrmEdit(titles, regens, drops, uploadsets) ==
    \E post_id \in DOMAIN orm_posts, title \in titles, regen \in regens,
       drop \in drops, uploads \in uploadsets :
        /\ Strip(title) # <<>>
        /\ \E base \in BaseSlugs(title) :
              LET others == [p \in DOMAIN orm_posts \ {post_id} |-> orm_posts[p]]
                  slug == IF regen THEN FreeSlug(base, SlugsOf(others), 1)
                          ELSE orm_posts[post_id].slug
                  kept == { m \in media : ~(m.post_id = post_id /\ m.id \in drop) }
                  rows == NewMedia(uploads, post_id, orm_next.media)
              IN  IF SlugAccepted(slug, others)
                  THEN /\ orm_posts' = [orm_posts EXCEPT ![post_id].slug = slug]
                       /\ media' = kept \cup rows
                       /\ orm_next' = [orm_next EXCEPT
                                          !.media = orm_next.media + Cardinality(rows)]
                  ELSE UNCHANGED <<orm_posts, media, orm_next>>
        /\ UNCHANGED orm_pending
        /\ UNCHANGED appVars

\* delete: remove the post row; its media go with it
OrmDelete ==
    \E post_id \in DOMAIN orm_posts :
        /\ orm_posts' = [p \in DOMAIN orm_posts \ {post_id} |-> orm_posts[p]]
        /\ media' = MediaAfterDelete(media, post_id)
        /\ UNCHANGED <<orm_next, orm_pending>>
        /\ UNCHANGED appVars

\* the check boxes of the edit form: no media row, or one of them
MediaDrops == {{}} \cup { {id} : id \in 1..MaxMedia }

\* Posts with media: one request at a time, every kind of upload, titles
\* that leave no slug.
NextOrm ==
    \/ OrmCreateProbe({1}, {no_letters}, {"music", "chess"})
    \/ OrmCreateInsert({1}, OrmUploads)
    \/ OrmEdit({My_Post}, {FALSE}, MediaDrops, OrmUploads)
    \/ OrmDelete

SpecOrm == Init /\ [][NextOrm]_vars

\* Slugs: interleaved creates, edits that recompute the slug.
NextSlug ==
    \/ OrmCreateProbe(Workers, {My_Post, my__post, blank_title},
                       {"music", "finance", "chess"})
    \/ OrmCreateInsert(Workers, {<<>>})
    \/ OrmEdit({My_Post, my__post, blank_title}, BOOLEAN, {{}}, {<<>>})
    \/ OrmDelete

SpecSlug == Init /\ [][NextSlug]_vars

-----------------------------------------------------------------------------
(* Properties of the sqlite revision *)

AdminLoginRequired == Flash("Admin login required.", <<>>)
FillRequiredFields == Flash("Please fill all required fields.", <<>>)
CapWarning == Flash("Max images per post. Extra files ignored.", <<>>)

Min(a, b) == IF a <= b THEN a ELSE b

\* C1: a request to admin_new, admin_edit or admin_delete from a session
\* whose is_admin flag is not set is answered with a redirect to login and
\* changes no post row, no id counter and no file or directory of the
\* upload folder.
C1_GuestRequestChangesNothing ==
    [][ \A s \in Sessions :
          ( /\ ~is_admin[s]
            /\ \/ \E method \in Methods, form \in Forms, files \in FileSets :
                     admin_new(s, method, form, files)
               \/ \E method \in Methods, post_id \in PostIds,
                     form \in Forms, files \in FileSets :
                     admin_edit(s, method, post_id, form, files)
               \/ \E post_id \in PostIds : admin_delete(s, post_id) )
          => ( /\ response'.status = "redirect_login"
               /\ posts' = posts
               /\ next_id' = next_id
               /\ disk' = disk ) ]_vars

\* A guest was turned away from admin_delete while a post existed, and
\* another session is logged in.
C1_Witness ==
    /\ response.op = "admin_delete"
    /\ response.status = "redirect_login"
    /\ AdminLoginRequired \in response.flashes
    /\ DOMAIN posts # {}
    /\ \E s, t \in Sessions : is_admin[s] /\ ~is_admin[t]

\* s has made a POST /login with the configured password, and no /logout since
LoggedIn(log, s) ==
    \E i \in 1..Len(log) :
        /\ log[i].sess = s
        /\ log[i].route = "login"
        /\ log[i].method = "POST"
        /\ log[i].password = ADMIN_PASSWORD
        /\ \A j \in (i + 1)..Len(log) : ~(log[j].sess = s /\ log[j].route = "logout")

\* C2: a session's is_admin flag is set exactly when the session has made
\* a POST /login with the configured password and no /logout since (so a
\* login with another password leaves the flag as it was, and a logout
\* leaves it cleared).
C2_FlagIffLoggedIn == \A s \in Sessions : is_admin[s] <=> LoggedIn(authlog, s)

\* A session logged in, then failed a login and is still admin, while
\* the log holds a logout as well.
C2_Witness ==
    \E s \in Sessions, i, j \in 1..Len(authlog) :
        /\ is_admin[s]
        /\ i < j
        /\ authlog[i] = AuthRequest(s, "login", "POST", ADMIN_PASSWORD)
        /\ authlog[j] = AuthRequest(s, "login", "POST", "hunter2")
        /\ \E k \in 1..Len(authlog) : authlog[k].route = "logout"

\* C3: a create by an admin with an empty title, or with a section outside
\* the sections table, persists no post row and reports a validation
\* failure: the form is rendered again with the warning.
C3_InvalidCreateIsValidationFailure ==
    [][ \A s \in Sessions, form \in Forms, files \in FileSets :
          ( /\ is_admin[s]
            /\ Strip(form.title) = <<>> \/ form.section_id \notin SectionIds
            /\ admin_new(s, "POST", form, files) )
          => ( /\ posts' = posts
               /\ response'.status = "render_admin_new"
               /\ FillRequiredFields \in response'.flashes ) ]_vars

\* C4: an edit by an admin that fails validation (section, title or body
\* missing) mutates nothing: the post rows are unchanged and the upload
\* directory holds what it held.
C4_InvalidEditMutatesNothing ==
    [][ \A s \in Sessions, post_id \in PostIds, form \in Forms, files \in FileSets :
          ( /\ is_admin[s]
            /\ post_id \in DOMAIN posts
            /\ MissingField(form)
            /\ admin_edit(s, "POST", post_id, form, files) )
          => ( /\ response'.status = "render_admin_edit"
               /\ posts' = posts
               /\ disk' = disk ) ]_vars

\* The extension of a file name, as the specification words it: the
\* characters after the final ".", compared without regard to case.
CasePairs ==
    { <<"P","p">>, <<"N","n">>, <<"G","g">>, <<"E","e">>, <<"X","x">>, <<"A","a">> }

SameLetter(c, d) == c = d \/ <<c, d>> \in CasePairs \/ <<d, c>> \in CasePairs

HasAllowedExtension(filename) ==
    \E k \in 1..Len(filename), e \in ALLOWED_EXTENSIONS :
        /\ filename[k] = "."
        /\ \A j \in (k + 1)..Len(filename) : filename[j] # "."
        /\ Len(filename) - k = Len(e)
        /\ \A i \in 1..Len(e) : SameLetter(filename[k + i], e[i])

\* the files of a request that carry a name and an allowed extension
Acceptable(files) ==
    SelectSeq(FileList(files),
              LAMBDA f : f.filename # <<>> /\ HasAllowedExtension(f.filename))

ValidForm(form) == ~MissingField(form) /\ SectionExists(form.section_id)

\* C5, for one request on post_id, whose list was `existing`: when more
\* acceptable files are submitted than the cap leaves room for, the request
\* succeeds, the post is persisted with exactly the cap, and the warning is
\* flashed.
CapOutcome(post_id, existing, files) ==
    Len(Acceptable(files)) > MAX_IMAGES_PER_POST - Len(existing)
    => /\ response'.status = "redirect_admin"
       /\ CapWarning \in response'.flashes
       /\ post_id \in DOMAIN posts'
       /\ Len(posts'[post_id].image_paths) = MAX_IMAGES_PER_POST

\* C5: after any create or edit no post lists more than
\* MAX_IMAGES_PER_POST image paths, and a create or edit with valid fields
\* that submits files beyond the cap drops them with a warning and still
\* succeeds with the post persisted.
C5_ImageCap ==
    [][ /\ \A p \in DOMAIN posts' :
              Len(posts'[p].image_paths) <= MAX_IMAGES_PER_POST
        /\ \A s \in Sessions, form \in Forms, files \in FileSets :
              (is_admin[s] /\ ValidForm(form)) =>
                /\ admin_new(s, "POST", form, files)
                      => CapOutcome(next_id, <<>>, files)
                /\ \A post_id \in DOMAIN posts :
                      admin_edit(s, "POST", post_id, form, files)
                      => CapOutcome(post_id, posts[post_id].image_paths, files) ]_vars

\* A full post, after a request that had files dropped at the cap.
C5_Witness ==
    /\ response.status = "redirect_admin"
    /\ CapWarning \in response.flashes
    /\ \E p \in DOMAIN posts : Len(posts[p].image_paths) = MAX_IMAGES_PER_POST

\* C8, for one request on post_id, whose list was `existing` and whose
\* directory held `dir`: the request succeeds and the post is persisted; the
\* list grows by the acceptable files, in order, as far as the cap allows,
\* each stored under a new name with its own content; nothing else is
\* written, so no file of an unsupported type is stored or listed.
UploadOutcome(post_id, existing, dir, files) ==
    LET acc == Acceptable(files)
        n == Min(MAX_IMAGES_PER_POST - Len(existing), Len(acc))
        list == posts'[post_id].image_paths
        new == DOMAIN disk'[post_id] \ DOMAIN dir
    IN  /\ response'.status = "redirect_admin"
        /\ post_id \in DOMAIN posts'
        /\ Len(list) = Len(existing) + n
        /\ SubSeq(list, 1, Len(existing)) = existing
        /\ Cardinality(new) = n
        /\ \A i \in 1..n :
              \E name \in new :
                 /\ list[Len(existing) + i] = RelPath(post_id, name)
                 /\ disk'[post_id][name] = acc[i].data

\* C8: in a create or edit with valid fields, a submitted file whose
\* extension (after the final ".", case-insensitively) is not allowed is
\* neither written nor listed, and the request goes on: every allowed file
\* of the request, up to the cap, is stored and listed and the post is
\* persisted.
C8_UnsupportedFileIsSkipped ==
    [][ \A s \in Sessions, form \in Forms, files \in FileSets :
          (is_admin[s] /\ ValidForm(form)) =>
            /\ admin_new(s, "POST", form, files)
                  => UploadOutcome(next_id, <<>>, <<>>, files)
            /\ \A post_id \in DOMAIN posts :
                  admin_edit(s, "POST", post_id, form, files)
                  => UploadOutcome(post_id, posts[post_id].image_paths,
                                   disk[post_id], files) ]_vars

\* a.exe was refused, and a.PNG, which followed it, is stored and listed.
C8_Witness ==
    /\ response.status = "redirect_admin"
    /\ Flash("Unsupported image type", a_exe) \in response.flashes
    /\ \E p \in DOMAIN posts :
          /\ \E i \in 1..Len(posts[p].image_paths) :
                posts[p].image_paths[i] = RelPath(p, a_PNG)
          /\ a_PNG \in DOMAIN disk[p]
          /\ a_exe \notin DOMAIN disk[p]

\* C9: storing a file never overwrites a file the directory holds, and the
\* paths a post lists are pairwise distinct, each naming a file stored in
\* the post's directory.
C9_NoOverwrite ==
    [][ /\ \A p \in DOMAIN disk : \A name \in DOMAIN disk[p] :
              /\ p \in DOMAIN disk'
              /\ name \in DOMAIN disk'[p]
              /\ disk'[p][name] = disk[p][name]
        /\ \A p \in DOMAIN posts' :
              LET list == posts'[p].image_paths
              IN  /\ \A i, j \in 1..Len(list) : list[i] = list[j] => i = j
                  /\ \A i \in 1..Len(list) :
                        \E name \in DOMAIN disk'[p] : list[i] = RelPath(p, name) ]_vars

\* The same name came three times to one post: a.png, then a-1.png for the
\* second, then a-1-1.png for an upload itself named a-1.png.
C9_Witness ==
    \E p \in DOMAIN posts :
        /\ {RelPath(p, a_png), RelPath(p, a_1_png),
            RelPath(p, <<"a","-","1","-","1",".","p","n","g">>)}
              \subseteq RangeOf(posts[p].image_paths)
        /\ disk[p][a_png] # disk[p][a_1_png]

\* C10: once no admin_edit is in flight, every file the requests saved for
\* a post that exists is listed in that post's image_paths: no reference
\* appended by one request is lost to another request's write.
C10_NoLostImage ==
    (\A w \in Workers : inflight[w] = <<>>) =>
        \A p \in DOMAIN posts : \A name \in DOMAIN disk[p] :
            RelPath(p, name) \in RangeOf(posts[p].image_paths)

-----------------------------------------------------------------------------
(* Properties of the ORM revision *)

\* C6: every media row references a post that exists, so after a post is
\* deleted no media row owned by it remains.
C6_MediaHasOwner == \A m \in media : m.post_id \in DOMAIN orm_posts

\* A post has been deleted and media rows are gone, while a post that
\* exists still owns an image.
C6_Witness ==
    /\ orm_next.post > Cardinality(DOMAIN orm_posts) + 1
    /\ orm_next.media > Cardinality(media) + 1
    /\ \E m \in media : m.kind = "image" /\ m.url = photo_PNG

\* C7: no two stored posts have the same slug, also when creates that
\* derived the same slug interleave: the unique constraint refuses the
\* second insert.
C7_SlugsUnique ==
    \A p, q \in DOMAIN orm_posts :
        orm_posts[p].slug = orm_posts[q].slug => p = q

\* Two creates probed the same free slug; one has inserted it, the other
\* is about to be refused. A later post took the suffix -2.
C7_Witness ==
    /\ \E w \in Workers :
          /\ orm_pending[w] # <<>>
          /\ orm_pending[w][1].slug \in SlugsOf(orm_posts)
    /\ {<<"m","y","-","p","o","s","t">>, <<"m","y","-","p","o","s","t","-","2">>}
          \subseteq SlugsOf(orm_posts)

====
